---- MODULE Spec2Model ----
(***************************************************************************)
(* Model of non_blocking_io/src/synchronous_event_demultiplexing.ts:       *)
(* class Resource (dataQueue, listeners, addDataQueue, read, onDataReady,  *)
(* emit) and class Demultiplexer (watch), run on the Node.js event loop:   *)
(* timers of one duration fire in creation order, the due timers of one    *)
(* duration fire back to back, and the microtasks a timer callback queues  *)
(* (promise continuations) all run before the next timer callback.         *)
(***************************************************************************)
EXTENDS Integers, Sequences, FiniteSets, TLC

\* ------------------------------------------------------------------ bounds
MaxWatches == 2      \* calls of Demultiplexer.watch
MaxAdds == 2         \* calls of Resource.addDataQueue
MaxReads == 2        \* calls of Resource.read made outside watch
MaxUserSubs == 2     \* calls of Resource.onDataReady made outside watch
MaxLoopWatches == 3  \* iterations of the loop of demultiplexedWait

\* ------------------------------------------------------- program constants
NO_DATA_AVAILABLE == "NO_DATA_AVAILABLE"
AddLatency == 3000
ReadLatency == 1000
MainDelay == 5000
TimeUnit == ReadLatency

Resources == {"socketA", "socketB", "socketC"}

\* dataQueue: (string | null)[]
Str(s) == <<"string", s>>
Null == <<"null">>

\* the strings handed to addDataQueue
AddData == {"x", ""}

\* the resources that callers other than watch read and subscribe to
Consumed == {"socketA"}

\* the dataQueue arrays handed to the constructor
InitQueues == {<<>>, <<Str("p")>>}

\* the dataQueue arrays handed to the constructor of the consumed resource
ConsumedQueues == {<<>>, <<Str("p")>>, <<Null, Str("p")>>}

\* the resource arrays handed to watch
WatchLists ==
  { <<"socketA", "socketB", "socketC">>, <<"socketA", "socketB">>,
    <<"socketB">>, <<>> }

\* the dataQueue arrays handed to the constructor of a resource the loop of
\* demultiplexedWait watches
LoopQueues == {<<>>, <<Str("p")>>, <<Str("p"), Str("q")>>}

\* the array main hands to demultiplexedWait
MainList == <<"socketA", "socketB", "socketC">>

\* the strings main hands to addDataQueue on socketA and on socketB
MainDataA == {"sample data A", ""}
MainDataB == {"sample data B", ""}

\* the owner of a read issued by the loop of demultiplexedWait
LoopReader == -1

VARIABLES
  dataQueue,   \* Resource.dataQueue, per resource
  listeners,   \* Resource.listeners, per resource: sequence of callback ids
  subs,        \* the callbacks ever registered: [w, r, at, calls, saw, nth]
  watches,     \* the watch invocations: closure state, promise state and
               \* history (probes answered, pushes made while pending)
  timers,      \* pending setTimeout promises: one list per duration
  microtasks,  \* pending .then callbacks of the probes
  batch,       \* the timer list being processed ("none", "add", "read")
  ctor,        \* history: the dataQueue array given to the constructor
  appended,    \* history: the items pushed by addDataQueue, per resource
  returned,    \* history: non-sentinel results of read, per resource
  calls,       \* history: number of addDataQueue / read / onDataReady calls
  taken,       \* history: who shifted each entry off the queue, per resource
  loop,        \* demultiplexedWait: where its loop is suspended
  main,        \* main: where it is suspended, and its two strings
  used         \* history: the calls of useData, in order

progVars == <<dataQueue, listeners, subs, watches, timers, microtasks, batch,
              ctor, appended, returned, calls, taken>>

loopVars == <<loop, main, used>>

vars == <<progVars, loopVars>>

\* ------------------------------------------------------------ Resource.read
\* JavaScript truthiness of a queue entry: null and "" are falsy
Truthy(data) == data # Null /\ data # Str("")

\* read that returns the head of the queue and leaves it in the queue
read_Peek(q) ==
  IF Len(q) = 0
    THEN [ret |-> NO_DATA_AVAILABLE, queue |-> q]
    ELSE LET data == Head(q) IN
         [ret |-> IF Truthy(data) THEN data[2] ELSE NO_DATA_AVAILABLE,
          queue |-> q]

\* read that marks the resource closed (a null entry) when it finds no data
read_MarksClosed(q) ==
  IF Len(q) = 0
    THEN [ret |-> NO_DATA_AVAILABLE, queue |-> <<Null>>]
    ELSE LET data == Head(q) IN
         [ret |-> IF Truthy(data) THEN data[2] ELSE NO_DATA_AVAILABLE,
          queue |-> Tail(q)]

\* lines 40-44, after the await: result and the queue left behind
read(q) ==
  IF Len(q) = 0
    THEN [ret |-> NO_DATA_AVAILABLE, queue |-> q]
    ELSE LET data == Head(q) IN
         [ret |-> IF Truthy(data) THEN data[2] ELSE NO_DATA_AVAILABLE,
          queue |-> Tail(q)]

\* --------------------------------------------------------- Promise resolve
\* resolve() of the promise made by watch: only the first call settles it
resolve(ws, w, value) ==
  IF ws[w].settled
    THEN [ws EXCEPT ![w].resolveCalls = @ + 1]
    ELSE [ws EXCEPT ![w].settled = TRUE, ![w].value = value,
                    ![w].resolveCalls = @ + 1]

\* A program state as the operators below pass it around
State == [dq |-> dataQueue, ls |-> listeners, subs |-> subs, ws |-> watches]

\* history: the number of callback invocations so far
RECURSIVE Invocations(_)
Invocations(ss) ==
  IF ss = <<>> THEN 0 ELSE Head(ss).calls + Invocations(Tail(ss))

\* the listener resolving with the ready array and its own resource
listenerCallback_WithReady(st, id) ==
  LET s == st.subs[id]
      st1 == [st EXCEPT !.subs[id].calls = @ + 1,
                        !.subs[id].saw = st.dq[s.r],
                        !.subs[id].nth = Invocations(st.subs) + 1]
  IN IF s.w = 0 THEN st1
     ELSE [st1 EXCEPT !.ws = resolve(st1.ws, s.w,
                                     Append(st1.ws[s.w].ready, s.r))]

\* the listener resolving the newest watch instead of the one that
\* registered it
listenerCallback_ResolvesNewest(st, id) ==
  LET s == st.subs[id]
      st1 == [st EXCEPT !.subs[id].calls = @ + 1,
                        !.subs[id].saw = st.dq[s.r],
                        !.subs[id].nth = Invocations(st.subs) + 1]
  IN IF s.w = 0 THEN st1
     ELSE [st1 EXCEPT !.ws = resolve(st1.ws, Len(st1.ws), <<s.r>>)]

\* the arrow function registered at lines 98-100 (w # 0), or a callback
\* registered by another caller of onDataReady (w = 0), being invoked
listenerCallback(st, id) ==
  LET s == st.subs[id]
      st1 == [st EXCEPT !.subs[id].calls = @ + 1,
                        !.subs[id].saw = st.dq[s.r],
                        !.subs[id].nth = Invocations(st.subs) + 1]
  IN IF s.w = 0 THEN st1
     ELSE [st1 EXCEPT !.ws = resolve(st1.ws, s.w, <<s.r>>)]

RECURSIVE emitFrom(_, _, _)
emitFrom(st, r, k) ==
  IF k > Len(st.ls[r]) THEN st
  ELSE emitFrom(listenerCallback(st, st.ls[r][k]), r, k + 1)

RECURSIVE emitDownFrom(_, _, _)
emitDownFrom(st, r, k) ==
  IF k < 1 THEN st
  ELSE emitDownFrom(listenerCallback(st, st.ls[r][k]), r, k - 1)

\* emit that walks the listener list from its end
emit_Backwards(st, r) ==
  [emitDownFrom(st, r, Len(st.ls[r])) EXCEPT !.ls[r] = <<>>]

\* emit that empties the listener list before it walks it
emit_ClearsFirst(st, r) == [st EXCEPT !.ls[r] = <<>>]

\* emit that never empties the listener list
emit_KeepsListeners(st, r) == emitFrom(st, r, 1)

\* Resource.emit, lines 67-72
emit(st, r) == [emitFrom(st, r, 1) EXCEPT !.ls[r] = <<>>]

\* addDataQueue that notifies before it pushes
addDataQueue_EmitFirst(st, r, data) ==
  LET st1 == emit(st, r) IN [st1 EXCEPT !.dq[r] = Append(@, Str(data))]

\* Resource.addDataQueue after its await, lines 28-29
addDataQueue(st, r, data) ==
  emit([st EXCEPT !.dq[r] = Append(@, Str(data))], r)

\* Resource.onDataReady, lines 60-62: the callback gets the next id
onDataReady(st, r, w) ==
  [st EXCEPT !.subs = Append(@, [w |-> w, r |-> r, at |-> st.dq[r],
                                 calls |-> 0, saw |-> <<>>, nth |-> 0]),
             !.ls[r] = Append(@, Len(st.subs) + 1)]

\* the .then callback without the count-down of waiting
thenCallback_NoCountdown(st, w, r, data) ==
  IF data = NO_DATA_AVAILABLE
    THEN onDataReady(st, r, w)
    ELSE [st EXCEPT !.ws[w].ready = Append(@, r)]

\* the .then callback resolving as soon as one probe returns data
thenCallback_ResolveEarly(st, w, r, data) ==
  IF data = NO_DATA_AVAILABLE
    THEN onDataReady(st, r, w)
    ELSE LET ws1 == [st.ws EXCEPT ![w].ready = Append(@, r),
                                  ![w].waiting = @ - 1]
         IN [st EXCEPT !.ws = resolve(ws1, w, ws1[w].ready)]

\* the .then callback counting down waiting for every probe, with or
\* without data
thenCallback_CountsEmpty(st, w, r, data) ==
  LET st0 == IF data = NO_DATA_AVAILABLE THEN onDataReady(st, r, w)
             ELSE [st EXCEPT !.ws[w].ready = Append(@, r)]
      ws1 == [st0.ws EXCEPT ![w].waiting = @ - 1]
  IN IF ws1[w].waiting = 0
       THEN [st0 EXCEPT !.ws = resolve(ws1, w, ws1[w].ready)]
       ELSE [st0 EXCEPT !.ws = ws1]

\* the .then callback of one probe, lines 94-111
thenCallback(st, w, r, data) ==
  IF data = NO_DATA_AVAILABLE
    THEN onDataReady(st, r, w)
    ELSE LET ws1 == [st.ws EXCEPT ![w].ready = Append(@, r),
                                  ![w].waiting = @ - 1]
         IN IF ws1[w].waiting = 0
              THEN [st EXCEPT !.ws = resolve(ws1, w, ws1[w].ready)]
              ELSE [st EXCEPT !.ws = ws1]

\* ------------------------------------------------------------------ timers
\* Node keeps one list of timers per duration, in creation order
Timer(r, data, w, left) == [r |-> r, data |-> data, w |-> w, left |-> left]

Kinds == {"add", "read", "main"}

Due(kind) == timers[kind] # <<>> /\ Head(timers[kind]).left = 0

\* the watch awaited at line 131 is resolved and the loop has not resumed
LoopPending == loop.pc = "watching" /\ watches[loop.w].settled

\* main going on without awaiting the addDataQueue it called
MainPending_NoAwait == main.pc \in {"addA", "addB"}

\* the addDataQueue awaited at line 155 or 156 is done and main has not
\* resumed
MainPending == main.pc \in {"addA", "addB"} /\ timers.add = <<>>

\* every promise continuation has run
Quiet == microtasks = <<>> /\ ~LoopPending /\ ~MainPending

\* a timer callback running while promise continuations are still pending
CanFire_BeforeMicrotasks(kind) ==
  /\ ~LoopPending
  /\ ~MainPending
  /\ Due(kind)
  /\ IF batch \in {"none", kind} THEN TRUE ELSE ~Due(batch)

\* the oldest timer of a list is due, every microtask has run and no other
\* list is in the middle of being processed
CanFire(kind) ==
  /\ Quiet
  /\ Due(kind)
  /\ IF batch \in {"none", kind} THEN TRUE ELSE ~Due(batch)

RECURSIVE probes(_, _, _)
probes(rs, w, k) ==
  IF k > Len(rs) THEN <<>>
  ELSE <<Timer(rs[k], "-", w, ReadLatency)>> \o probes(rs, w, k + 1)

\* ----------------------------------------------------------------- initial
\* the state after the constructors, lines 14-19, for given dataQueue arrays
Constructed(queues) ==
  /\ dataQueue = queues
  /\ listeners = [r \in Resources |-> <<>>]
  /\ subs = <<>>
  /\ watches = <<>>
  /\ timers = [k \in Kinds |-> <<>>]
  /\ microtasks = <<>>
  /\ batch = "none"
  /\ ctor = queues
  /\ appended = [r \in Resources |-> <<>>]
  /\ returned = [r \in Resources |-> <<>>]
  /\ calls = [add |-> 0, read |-> 0, sub |-> 0]
  /\ taken = [r \in Resources |-> <<>>]
  /\ loop = [pc |-> "idle", w |-> 0, events |-> <<>>, k |-> 0]
  /\ main = [pc |-> "none", a |-> "-", b |-> "-"]
  /\ used = <<>>

Init == \E queues \in [Resources -> InitQueues] : Constructed(queues)

\* ----------------------------------------------------------------- actions
\* watch resolving at once, with no resource, when it is given none
CallWatch_ResolvesEmpty(rs) ==
  /\ Quiet
  /\ Len(watches) < MaxWatches
  /\ \A w \in DOMAIN watches : watches[w].settled
  /\ watches' = Append(watches,
        [resources |-> rs, ready |-> <<>>, waiting |-> Len(rs),
         settled |-> Len(rs) = 0, value |-> <<>>,
         resolveCalls |-> IF Len(rs) = 0 THEN 1 ELSE 0,
         probed |-> 0, pushes |-> 0])
  /\ timers' = [timers EXCEPT !.read = @ \o probes(rs, Len(watches) + 1, 1)]
  /\ UNCHANGED <<dataQueue, listeners, subs, microtasks, batch, ctor, appended,
                 returned, calls>>
  /\ UNCHANGED <<taken, loopVars>>

\* Demultiplexer.watch, lines 85-93: the synchronous part, one read per
\* resource, each starting its timer; the caller awaits one watch at a time
\* (line 131)
CallWatch(rs) ==
  /\ Quiet
  /\ Len(watches) < MaxWatches
  /\ \A w \in DOMAIN watches : watches[w].settled
  /\ watches' = Append(watches,
        [resources |-> rs, ready |-> <<>>, waiting |-> Len(rs),
         settled |-> FALSE, value |-> <<>>, resolveCalls |-> 0,
         probed |-> 0, pushes |-> 0])
  /\ timers' = [timers EXCEPT !.read = @ \o probes(rs, Len(watches) + 1, 1)]
  /\ UNCHANGED <<dataQueue, listeners, subs, microtasks, batch, ctor, appended,
                 returned, calls>>
  /\ UNCHANGED <<taken, loopVars>>

\* Resource.addDataQueue up to its await, lines 25-27
CallAdd(r, data) ==
  /\ Quiet
  /\ calls.add < MaxAdds
  /\ calls' = [calls EXCEPT !.add = @ + 1]
  /\ timers' = [timers EXCEPT !.add = Append(@, Timer(r, data, 0, AddLatency))]
  /\ UNCHANGED <<dataQueue, listeners, subs, watches, microtasks, batch,
                 ctor, appended, returned>>
  /\ UNCHANGED <<taken, loopVars>>

\* Resource.read called by a consumer other than watch, lines 38-39
CallRead(r) ==
  /\ Quiet
  /\ calls.read < MaxReads
  /\ calls' = [calls EXCEPT !.read = @ + 1]
  /\ timers' = [timers EXCEPT !.read = Append(@, Timer(r, "-", 0, ReadLatency))]
  /\ UNCHANGED <<dataQueue, listeners, subs, watches, microtasks, batch,
                 ctor, appended, returned>>
  /\ UNCHANGED <<taken, loopVars>>

\* Resource.onDataReady called by a subscriber other than watch
CallOnDataReady(r) ==
  /\ Quiet
  /\ calls.sub < MaxUserSubs
  /\ calls' = [calls EXCEPT !.sub = @ + 1]
  /\ LET st == onDataReady(State, r, 0) IN
       /\ subs' = st.subs
       /\ listeners' = st.ls
  /\ UNCHANGED <<dataQueue, watches, timers, microtasks, batch, ctor, appended,
                 returned>>
  /\ UNCHANGED <<taken, loopVars>>

\* the timer of an addDataQueue fires: push and emit, lines 28-29
FireAdd ==
  /\ CanFire("add")
  /\ LET t == Head(timers.add)
         st == addDataQueue(State, t.r, t.data)
     IN /\ dataQueue' = st.dq
        /\ listeners' = st.ls
        /\ subs' = st.subs
        /\ watches' = [w \in DOMAIN watches |->
                         IF watches[w].settled THEN st.ws[w]
                         ELSE [st.ws[w] EXCEPT !.pushes = @ + 1]]
        /\ appended' = [appended EXCEPT ![t.r] = Append(@, Str(t.data))]
  /\ timers' = [timers EXCEPT !.add = Tail(@)]
  /\ batch' = "add"
  /\ UNCHANGED <<microtasks, ctor, returned, calls>>
  /\ UNCHANGED <<taken, loopVars>>

\* the timer of a read fires: lines 40-44; a probe's result is handed to its
\* .then callback, which runs as a microtask
FireRead ==
  /\ CanFire("read")
  /\ LET t == Head(timers.read)
         res == read(dataQueue[t.r])
     IN /\ dataQueue' = [dataQueue EXCEPT ![t.r] = res.queue]
        /\ returned' = IF res.ret = NO_DATA_AVAILABLE THEN returned
                       ELSE [returned EXCEPT ![t.r] = Append(@, res.ret)]
        /\ taken' = IF dataQueue[t.r] = <<>> THEN taken
                    ELSE [taken EXCEPT ![t.r] =
                            Append(@, [by |-> t.w, item |-> Head(dataQueue[t.r])])]
        /\ microtasks' = IF t.w = 0 THEN microtasks
                         ELSE Append(microtasks,
                                [w |-> t.w, r |-> t.r, data |-> res.ret])
  /\ timers' = [timers EXCEPT !.read = Tail(@)]
  /\ batch' = "read"
  /\ UNCHANGED <<listeners, subs, watches, ctor, appended, calls>>
  /\ UNCHANGED loopVars

\* the .then callback of a probe runs, lines 94-111
RunThen ==
  /\ microtasks # <<>>
  /\ Head(microtasks).w > 0
  /\ LET m == Head(microtasks)
         st == thenCallback(State, m.w, m.r, m.data)
     IN /\ listeners' = st.ls
        /\ subs' = st.subs
        /\ watches' = [st.ws EXCEPT ![m.w].probed = @ + 1]
  /\ microtasks' = Tail(microtasks)
  /\ UNCHANGED <<dataQueue, timers, batch, ctor, appended, returned, calls>>
  /\ UNCHANGED <<taken, loopVars>>

\* time passes: no timer is due and no microtask is pending
Tick ==
  /\ Quiet
  /\ \E k \in Kinds : timers[k] # <<>>
  /\ \A k \in Kinds : ~Due(k)
  /\ timers' = [k \in Kinds |->
                  [i \in DOMAIN timers[k] |->
                     [timers[k][i] EXCEPT !.left = @ - TimeUnit]]]
  /\ batch' = "none"
  /\ UNCHANGED <<dataQueue, listeners, subs, watches, microtasks, ctor,
                 appended, returned, calls>>
  /\ UNCHANGED <<taken, loopVars>>

\* ------------------------------------------- demultiplexedWait and main
\* the closure state and the promise of a fresh watch, lines 86-90
NewWatch(rs) ==
  [resources |-> rs, ready |-> <<>>, waiting |-> Len(rs), settled |-> FALSE,
   value |-> <<>>, resolveCalls |-> 0, probed |-> 0, pushes |-> 0]

\* useData called for every result, NO_DATA_AVAILABLE included
consume_Unchecked(us, r, data, n) ==
  Append(us, [r |-> r, data |-> data, n |-> n])

\* lines 137-140: useData is called unless the read returned the sentinel;
\* n is the number of entries shifted off the resource's queue so far
consume(us, r, data, n) ==
  IF data # NO_DATA_AVAILABLE
    THEN Append(us, [r |-> r, data |-> data, n |-> n])
    ELSE us

\* the loop of demultiplexedWait at the head of its for statement with the
\* k-th event next, lines 134-136, or back at line 131 after the last one
LoopNext(events, k) ==
  IF k <= Len(events)
    THEN /\ timers' = [timers EXCEPT !.read =
                         Append(@, Timer(events[k], "-", LoopReader, ReadLatency))]
         /\ loop' = [pc |-> "reading", w |-> loop.w, events |-> events, k |-> k]
         /\ UNCHANGED watches
    ELSE IF Len(watches) < MaxLoopWatches
      THEN /\ watches' = Append(watches, NewWatch(MainList))
           /\ timers' = [timers EXCEPT !.read =
                           @ \o probes(MainList, Len(watches) + 1, 1)]
           /\ loop' = [pc |-> "watching", w |-> Len(watches) + 1,
                       events |-> <<>>, k |-> 0]
      ELSE /\ loop' = [pc |-> "stopped", w |-> loop.w, events |-> <<>>, k |-> 0]
           /\ UNCHANGED <<watches, timers>>

\* demultiplexedWait is called and runs to its first await, lines 126-131
LoopStart ==
  /\ Quiet
  /\ loop.pc = "idle"
  /\ LoopNext(<<>>, 1)
  /\ UNCHANGED <<dataQueue, listeners, subs, microtasks, batch, ctor, appended,
                 returned, calls, taken, main, used>>

\* the await of line 131 resumes with the events of the resolved watch
LoopResume ==
  /\ microtasks = <<>>
  /\ LoopPending
  /\ LoopNext(watches[loop.w].value, 1)
  /\ UNCHANGED <<dataQueue, listeners, subs, microtasks, batch, ctor, appended,
                 returned, calls, taken, main, used>>

\* the await of line 136 resumes with the result of the read, lines 137-141
LoopReadThen ==
  /\ microtasks # <<>>
  /\ Head(microtasks).w = LoopReader
  /\ LET m == Head(microtasks) IN
       used' = consume(used, m.r, m.data, Len(taken[m.r]))
  /\ microtasks' = Tail(microtasks)
  /\ LoopNext(loop.events, loop.k + 1)
  /\ UNCHANGED <<dataQueue, listeners, subs, batch, ctor, appended, returned,
                 calls, taken, main>>

\* main up to its first await, lines 146-154: the loop is started and runs
\* to its first await, then the timer of 5000 is started
MainStart ==
  /\ Quiet
  /\ main.pc = "none"
  /\ loop.pc = "idle"
  /\ \E a \in MainDataA, b \in MainDataB :
       main' = [pc |-> "sleep", a |-> a, b |-> b]
  /\ watches' = Append(watches, NewWatch(MainList))
  /\ timers' = [timers EXCEPT
                  !.read = @ \o probes(MainList, Len(watches) + 1, 1),
                  !.main = Append(@, Timer("-", "-", 0, MainDelay))]
  /\ loop' = [pc |-> "watching", w |-> Len(watches) + 1, events |-> <<>>,
              k |-> 0]
  /\ UNCHANGED <<dataQueue, listeners, subs, microtasks, batch, ctor, appended,
                 returned, calls, taken, used>>

\* the timer of line 154 fires and main calls socketA.addDataQueue, line 155
FireMain ==
  /\ CanFire("main")
  /\ main.pc = "sleep"
  /\ timers' = [timers EXCEPT
                  !.main = Tail(@),
                  !.add = Append(@, Timer("socketA", main.a, 0, AddLatency))]
  /\ calls' = [calls EXCEPT !.add = @ + 1]
  /\ main' = [main EXCEPT !.pc = "addA"]
  /\ batch' = "main"
  /\ UNCHANGED <<dataQueue, listeners, subs, watches, microtasks, ctor,
                 appended, returned, taken, loop, used>>

\* the await of line 155 resumes and main calls socketB.addDataQueue, line
\* 156; the await of line 156 resumes and main awaits the loop, line 158
MainResume ==
  /\ microtasks = <<>>
  /\ MainPending
  /\ IF main.pc = "addA"
       THEN /\ timers' = [timers EXCEPT !.add =
                            Append(@, Timer("socketB", main.b, 0, AddLatency))]
            /\ calls' = [calls EXCEPT !.add = @ + 1]
            /\ main' = [main EXCEPT !.pc = "addB"]
       ELSE /\ main' = [main EXCEPT !.pc = "done"]
            /\ UNCHANGED <<timers, calls>>
  /\ UNCHANGED <<dataQueue, listeners, subs, watches, microtasks, batch, ctor,
                 appended, returned, taken, loop, used>>

\* the demultiplexer and its producers
Next ==
  \/ \E rs \in WatchLists : CallWatch(rs)
  \/ \E r \in Resources, data \in AddData : CallAdd(r, data)
  \/ FireAdd
  \/ FireRead
  \/ RunThen
  \/ Tick

Spec == Init /\ [][Next]_vars

\* the loop of demultiplexedWait over the three resources and its producers
NextLoop ==
  \/ LoopStart
  \/ LoopResume
  \/ LoopReadThen
  \/ \E r \in Resources, data \in AddData : CallAdd(r, data)
  \/ FireAdd
  \/ FireRead
  \/ RunThen
  \/ Tick

InitLoop == \E queues \in [Resources -> LoopQueues] : Constructed(queues)

SpecLoop == InitLoop /\ [][NextLoop]_vars

\* main: the loop and the two addDataQueue calls of lines 155-156
NextMain ==
  \/ MainStart
  \/ FireMain
  \/ MainResume
  \/ LoopResume
  \/ LoopReadThen
  \/ FireAdd
  \/ FireRead
  \/ RunThen
  \/ Tick

SpecMain == Init /\ [][NextMain]_vars

\* one resource with its producers, consumers and subscribers
InitResource ==
  \E q \in ConsumedQueues :
    Constructed([r \in Resources |-> IF r \in Consumed THEN q ELSE <<>>])

NextResource ==
  \/ \E r \in Consumed, data \in AddData : CallAdd(r, data)
  \/ \E r \in Consumed : CallRead(r)
  \/ \E r \in Consumed : CallOnDataReady(r)
  \/ FireAdd
  \/ FireRead
  \/ Tick

SpecResource == InitResource /\ [][NextResource]_vars

\* ------------------------------------------------------------- properties
\* callback i is still in the listener list of its resource
Outstanding(i) ==
  \E k \in DOMAIN listeners[subs[i].r] : listeners[subs[i].r][k] = i

InList(rs, r) == \E k \in DOMAIN rs : rs[k] = r

AllThree == <<"socketA", "socketB", "socketC">>

\* C1 as stated: whenever the queue of a resource of a pending watch goes
\* from empty to non-empty, that watch is resolved by the same step.
C1_AnyAppendResolves ==
  [][\A w \in DOMAIN watches : \A r \in Resources :
       (/\ ~watches[w].settled
        /\ InList(watches[w].resources, r)
        /\ dataQueue[r] = <<>>
        /\ dataQueue'[r] # <<>>)
       => watches'[w].settled]_vars

\* C1: whenever the queue of a resource goes from empty to non-empty while a
\* pending watch has a callback in that resource's listener list (its probe
\* of the resource returned NO_DATA_AVAILABLE), the same step resolves that
\* watch with that resource.
C1_SubscribedAppendResolves ==
  [][\A i \in DOMAIN subs :
       (/\ subs[i].w # 0
        /\ ~watches[subs[i].w].settled
        /\ Outstanding(i)
        /\ dataQueue[subs[i].r] = <<>>
        /\ dataQueue'[subs[i].r] # <<>>)
       => /\ watches'[subs[i].w].settled
          /\ watches'[subs[i].w].value = <<subs[i].r>>]_vars

C1_Witness ==
  \E i \in DOMAIN subs :
    /\ subs[i].w # 0
    /\ subs[i].calls = 1
    /\ Len(subs[i].saw) = 1
    /\ watches[subs[i].w].settled
    /\ watches[subs[i].w].value = <<subs[i].r>>
    /\ watches[subs[i].w].resolveCalls = 1

\* C2 as stated: a watch of socketA, socketB, socketC of which only socketB
\* has data, and with no addDataQueue at all, is resolved with exactly
\* socketB once its three probes have completed.
C2_OnlyReadyResolves ==
  \A w \in DOMAIN watches :
    (/\ watches[w].resources = AllThree
     /\ calls.add = 0
     /\ watches[w].probed = 3
     /\ watches[w].ready = <<"socketB">>)
    => /\ watches[w].settled
       /\ watches[w].value = <<"socketB">>

C4_AllReadyResolves ==
  \A w \in DOMAIN watches :
    (/\ watches[w].resources # <<>>
     /\ Len(watches[w].ready) = Len(watches[w].resources))
    => /\ watches[w].settled
       /\ watches[w].value = watches[w].resources
       /\ watches[w].resolveCalls = 1
       /\ watches[w].probed = Len(watches[w].resources)
       /\ \A i \in DOMAIN subs : subs[i].w # w

C4_Witness ==
  \E w \in DOMAIN watches :
    /\ watches[w].resources = AllThree
    /\ watches[w].ready = AllThree
    /\ watches[w].settled
    /\ calls.add = 0

\* C5: once a watch is resolved its result never changes, whatever later
\* resolve calls are made, and a resolved watch has run the .then callback
\* of the probe of every resource passed to it.
C5_ResolvesOnceAfterProbes ==
  [][\A w \in DOMAIN watches :
       /\ watches[w].settled
            => (watches'[w].settled /\ watches'[w].value = watches[w].value)
       /\ watches'[w].settled
            => watches'[w].probed = Len(watches'[w].resources)]_vars

C5_Witness ==
  \E w \in DOMAIN watches :
    /\ watches[w].settled
    /\ watches[w].resolveCalls >= 2
    /\ watches[w].probed = 3

\* the raw values of queue entries that are strings
RECURSIVE Values(_)
Values(q) == IF q = <<>> THEN <<>> ELSE <<Head(q)[2]>> \o Values(Tail(q))

Last(q) == q[Len(q)]

IsPrefix(p, q) == Len(p) <= Len(q) /\ \A k \in DOMAIN p : p[k] = q[k]

\* C6: a callback is in a listener list only while it has never been invoked;
\* the next push on its resource invokes it, once, on the queue that already
\* holds the pushed item, and takes it out of the list; after that no step
\* invokes it again.
C6_OneShotSubscription ==
  [][\A i \in DOMAIN subs :
       /\ Outstanding(i) => subs[i].calls = 0
       /\ (Outstanding(i)
           /\ Len(appended'[subs[i].r]) = Len(appended[subs[i].r]) + 1)
          => /\ subs'[i].calls = 1
             /\ subs'[i].saw
                  = Append(dataQueue[subs[i].r], Last(appended'[subs[i].r]))
             /\ ~Outstanding(i)'
       /\ ~Outstanding(i)
          => (subs'[i].calls = subs[i].calls /\ ~Outstanding(i)')]_vars

C6_Witness ==
  \E i \in DOMAIN subs :
    /\ subs[i].at = <<>>
    /\ ctor[subs[i].r] = <<>>
    /\ calls.read = 0
    /\ subs[i].calls = 1
    /\ Len(subs[i].saw) = 1
    /\ ~Outstanding(i)
    /\ Len(appended[subs[i].r]) = 2

\* C7 as stated: on a resource constructed with an empty queue, the results
\* of read other than NO_DATA_AVAILABLE are, in order, a prefix of the
\* strings pushed by addDataQueue.
C7_ReturnedIsPrefixOfAppended ==
  \A r \in Resources :
    ctor[r] = <<>> => IsPrefix(returned[r], Values(appended[r]))

\* C8 as stated: read returns NO_DATA_AVAILABLE exactly when it finds the
\* queue empty, and otherwise removes the head and returns that head.
C8_ReadReturnsHead ==
  [][FireRead =>
       LET r == Head(timers.read).r IN
         /\ (returned' = returned) <=> (dataQueue[r] = <<>>)
         /\ dataQueue[r] # <<>>
              => /\ dataQueue'[r] = Tail(dataQueue[r])
                 /\ returned'[r] # <<>>
                 /\ Str(Last(returned'[r])) = Head(dataQueue[r])]_vars

\* C9: a read that finds the queue empty changes neither the queue nor the
\* listener list of any resource, and returns NO_DATA_AVAILABLE (nothing is
\* added to the returned items).
C9_EmptyReadChangesNothing ==
  [][(FireRead /\ dataQueue[Head(timers.read).r] = <<>>)
       => /\ dataQueue' = dataQueue
          /\ listeners' = listeners
          /\ subs' = subs
          /\ returned' = returned]_vars

C9_Witness ==
  \E r \in Resources :
    /\ calls.read >= 1
    /\ timers.read = <<>>
    /\ ctor[r] = <<>>
    /\ appended[r] = <<>>
    /\ timers.add = <<>>
    /\ listeners[r] # <<>>

\* C10: a callback registered by a watch is invoked only in a step that
\* pushes an item on its resource, and the queue it runs on ends with the
\* item just pushed; a watch that is resolved while one of its probes has
\* not returned an item is resolved in such a step.
C10_ResolvedAfterAppend ==
  [][/\ \A i \in DOMAIN subs :
          (subs[i].w # 0 /\ subs'[i].calls # subs[i].calls)
          => /\ Len(appended'[subs[i].r]) = Len(appended[subs[i].r]) + 1
             /\ subs'[i].saw # <<>>
             /\ Last(subs'[i].saw) = Last(appended'[subs[i].r])
             /\ subs'[i].saw = dataQueue'[subs[i].r]
     /\ \A w \in DOMAIN watches :
          (/\ ~watches[w].settled
           /\ watches'[w].settled
           /\ Len(watches'[w].ready) < Len(watches[w].resources))
          => \E i \in DOMAIN subs :
               /\ subs[i].w = w
               /\ subs'[i].calls = subs[i].calls + 1
               /\ watches'[w].value = <<subs[i].r>>]_vars

C10_Witness ==
  \E i \in DOMAIN subs :
    /\ subs[i].w # 0
    /\ subs[i].calls = 1
    /\ watches[subs[i].w].settled
    /\ watches[subs[i].w].value = <<subs[i].r>>
    /\ subs[i].saw = appended[subs[i].r]
    /\ Len(subs[i].saw) = 1
    /\ watches[subs[i].w].resources = <<"socketB">>

\* the callbacks watch w has registered
SubsOf(w) == {i \in DOMAIN subs : subs[i].w = w}

\* the step pushes an item on resource r
Pushed(r) == Len(appended'[r]) = Len(appended[r]) + 1

\* C11: a pending watch is resolved only by a step in which its last probe
\* returned an item like all the others, or by a step that pushes an item on
\* a resource on which it has a callback listed; in particular a watch all
\* of whose probes returned NO_DATA_AVAILABLE stays pending through every
\* step that pushes on none of its resources.
C11_PendingUntilAppend ==
  [][\A w \in DOMAIN watches :
       /\ (~watches[w].settled /\ watches'[w].settled)
          => \/ /\ watches[w].resources # <<>>
                /\ watches'[w].ready = watches[w].resources
                /\ watches'[w].probed = watches[w].probed + 1
             \/ \E i \in SubsOf(w) : Outstanding(i) /\ Pushed(subs[i].r)
       /\ (/\ ~watches[w].settled
           /\ watches[w].resources # <<>>
           /\ Cardinality(SubsOf(w)) = Len(watches[w].resources)
           /\ \A r \in Resources :
                InList(watches[w].resources, r) => ~Pushed(r))
          => ~watches'[w].settled]_vars

C11_Witness ==
  \E w \in DOMAIN watches :
    /\ watches[w].resources = <<"socketB">>
    /\ Cardinality(SubsOf(w)) = 1
    /\ \A i \in SubsOf(w) : Outstanding(i)
    /\ ~watches[w].settled
    /\ \A k \in Kinds : timers[k] = <<>>
    /\ appended["socketA"] # <<>>
    /\ appended["socketB"] = <<>>

\* C13: the callbacks in a listener list are all invoked by the next push on
\* the resource, each once, in the order of the list (the order in which they
\* were registered), and the list is empty afterwards.
C13_AllListenersInOrder ==
  [][\A r \in Resources :
       Pushed(r)
       => /\ listeners'[r] = <<>>
          /\ \A k \in DOMAIN listeners[r] :
               /\ subs[listeners[r][k]].calls = 0
               /\ subs'[listeners[r][k]].calls = 1
               /\ subs'[listeners[r][k]].nth = Invocations(subs) + k]_vars

C13_Witness ==
  \E i, j \in DOMAIN subs :
    /\ i < j
    /\ subs[i].w = 0 /\ subs[j].w = 0
    /\ subs[i].r = subs[j].r
    /\ subs[i].at = <<>> /\ subs[j].at = <<>>
    /\ subs[i].nth = 1 /\ subs[j].nth = 2
    /\ subs[i].calls = 1 /\ subs[j].calls = 1
    /\ listeners[subs[i].r] = <<>>

\* the oldest pending addDataQueue call on resource r
RECURSIVE FirstFor(_, _)
FirstFor(ts, r) ==
  IF Head(ts).r = r THEN Head(ts) ELSE FirstFor(Tail(ts), r)

\* C14 as stated: a push on a resource puts the string of the oldest
\* addDataQueue call in flight on that resource at the end of its queue, and
\* on a resource constructed with an empty queue a read that finds the queue
\* non-empty returns the oldest entry.
C14_CallOrderAndOldest ==
  [][/\ \A r \in Resources :
          Pushed(r)
          => /\ Last(appended'[r]) = Str(FirstFor(timers.add, r).data)
             /\ dataQueue'[r] = Append(dataQueue[r], Last(appended'[r]))
     /\ \A r \in Resources :
          (ctor[r] = <<>> /\ Len(taken'[r]) = Len(taken[r]) + 1)
          => /\ Last(taken'[r]).item = Head(dataQueue[r])
             /\ Len(returned'[r]) = Len(returned[r]) + 1
             /\ Str(Last(returned'[r])) = Head(dataQueue[r])]_vars

\* C17: the result of a resolved watch is its whole input array, each
\* resource once, or exactly one resource of the input array.
C17_FullOrSingle ==
  \A w \in DOMAIN watches :
    watches[w].settled
    => \/ watches[w].value = watches[w].resources /\ watches[w].value # <<>>
       \/ /\ Len(watches[w].value) = 1
          /\ InList(watches[w].resources, watches[w].value[1])

C17_Witness ==
  \E v, w \in DOMAIN watches :
    /\ watches[v].settled /\ watches[w].settled
    /\ watches[v].resources = AllThree /\ watches[w].resources = AllThree
    /\ watches[v].value = AllThree
    /\ Len(watches[w].value) = 1

\* a watch record without its count of pushes
Closure(x) == [x EXCEPT !.pushes = 0]

\* C18: a listed callback stays listed through every step that pushes nothing
\* on its resource, also when its watch is already resolved; a later watch
\* adds its callback behind the ones listed; and a watch is never resolved by
\* a step that invokes none of its own callbacks and runs none of its own
\* probes, so a leftover callback firing leaves other watches as they are.
C18_LeftoverSubscriptions ==
  [][/\ \A i \in DOMAIN subs :
          (Outstanding(i) /\ ~Pushed(subs[i].r)) => Outstanding(i)'
     /\ \A r \in Resources :
          ~Pushed(r)
          => /\ Len(listeners'[r]) >= Len(listeners[r])
             /\ SubSeq(listeners'[r], 1, Len(listeners[r])) = listeners[r]
     /\ \A w \in DOMAIN watches :
          Closure(watches'[w]) # Closure(watches[w])
          => \/ watches'[w].probed = watches[w].probed + 1
             \/ \E i \in SubsOf(w) : subs'[i].calls = subs[i].calls + 1]_vars

C18_Witness ==
  \E i, j \in DOMAIN subs :
    /\ subs[i].w = 1 /\ subs[j].w = 2
    /\ subs[i].r = subs[j].r
    /\ watches[1].settled
    /\ watches[1].value # <<subs[i].r>>
    /\ subs[i].calls = 1 /\ subs[j].calls = 1
    /\ subs[j].nth = subs[i].nth + 1
    /\ watches[2].settled
    /\ watches[2].value = <<subs[j].r>>
    /\ watches[1].resolveCalls = 2

\* C19: between the read of a probe that finds the queue empty and the
\* registration of the callback nothing is pushed on the resource, the
\* registration comes with the very next step, and the first push on the
\* resource after it invokes that callback.
C19_NoLostWakeup ==
  [][/\ \A k \in DOMAIN microtasks :
          /\ \A r \in Resources : ~Pushed(r)
          /\ (k = 1 /\ microtasks[k].w > 0
              /\ microtasks[k].data = NO_DATA_AVAILABLE)
             => \E i \in DOMAIN subs' :
                  /\ i \notin DOMAIN subs
                  /\ subs'[i].w = microtasks[k].w
                  /\ subs'[i].r = microtasks[k].r
                  /\ Outstanding(i)'
     /\ \A i \in DOMAIN subs :
          (subs[i].w # 0 /\ subs[i].calls = 0)
          => /\ Outstanding(i)
             /\ Pushed(subs[i].r) => subs'[i].calls = 1]_vars

C19_Witness ==
  \E i \in DOMAIN subs :
    /\ subs[i].w # 0
    /\ subs[i].at = <<>>
    /\ subs[i].calls = 1
    /\ watches[subs[i].w].resources = <<"socketA", "socketB">>
    /\ watches[subs[i].w].value = <<subs[i].r>>
    /\ Len(appended[subs[i].r]) = 1

\* -------------------------------------------------- the loop and main
\* every entry a resource's queue ever held: the constructor's, then the
\* pushed ones
All(r) == ctor[r] \o appended[r]

\* C12: the entries shifted off a queue are the first entries it ever held,
\* in order, and the queue holds exactly the later ones, so that an entry
\* shifted by a probe of watch is not in the queue again; every call of
\* useData hands over an entry that a read of the loop itself shifted, never
\* one a probe shifted; and a read of the loop is in flight only on a resource
\* of the array its resolved watch returned.
C12_ProbedItemsAreGone ==
  /\ \A r \in Resources :
       /\ Len(taken[r]) <= Len(All(r))
       /\ \A i \in DOMAIN taken[r] : taken[r][i].item = All(r)[i]
       /\ dataQueue[r] = SubSeq(All(r), Len(taken[r]) + 1, Len(All(r)))
  /\ \A i \in DOMAIN used :
       /\ used[i].n \in DOMAIN taken[used[i].r]
       /\ taken[used[i].r][used[i].n].by = LoopReader
       /\ taken[used[i].r][used[i].n].item = Str(used[i].data)
  /\ \A i \in DOMAIN timers.read :
       timers.read[i].w = LoopReader
       => /\ loop.pc = "reading"
          /\ watches[loop.w].settled
          /\ watches[loop.w].value = loop.events
          /\ loop.events[loop.k] = timers.read[i].r

C12_Witness ==
  \E r \in Resources : \E i \in DOMAIN taken[r], j \in DOMAIN used :
    /\ taken[r][i].by > 0
    /\ Truthy(taken[r][i].item)
    /\ used[j].r = r
    /\ used[j].n > i

\* the entry of All(r) a call of useData handed over
Origin(u) == IF u.n \in DOMAIN All(u.r) THEN All(u.r)[u.n] ELSE <<"none">>

\* per resource, the calls of useData hand over distinct entries, in the
\* order in which the queue received them
UsedOnceInOrder ==
  \A i, j \in DOMAIN used :
    (i < j /\ used[i].r = used[j].r) => used[i].n < used[j].n

\* C20 as stated: every call of useData hands over an entry that
\* addDataQueue pushed on that resource, no pushed entry is handed over
\* twice, and per resource the entries are handed over in push order.
C20_UsedWasAppended ==
  /\ \A i \in DOMAIN used :
       /\ used[i].n > Len(ctor[used[i].r])
       /\ Origin(used[i]) = Str(used[i].data)
  /\ UsedOnceInOrder

\* C20, amended: every call of useData hands over an entry the queue of that
\* resource held, given to the constructor or pushed by addDataQueue, and
\* never NO_DATA_AVAILABLE in place of one; no entry is handed over twice,
\* and per resource the entries are handed over in the order in which the
\* queue received them.
C20_UsedWasQueued ==
  /\ \A i \in DOMAIN used :
       /\ used[i].n \in DOMAIN All(used[i].r)
       /\ Origin(used[i]) = Str(used[i].data)
  /\ UsedOnceInOrder

C20_Witness ==
  \E i, j \in DOMAIN used :
    /\ i < j
    /\ used[i].r = used[j].r
    /\ used[i].n <= Len(ctor[used[i].r])
    /\ used[j].n > Len(ctor[used[j].r])

SampleRun ==
  /\ \A r \in Resources : ctor[r] = <<>>
  /\ main.pc # "none"
  /\ main.a = "sample data A"
  /\ main.b = "sample data B"

\* main has passed its last addDataQueue and nothing is left to run
MainAtRest ==
  /\ main.pc = "done"
  /\ \A k \in Kinds : timers[k] = <<>>
  /\ microtasks = <<>>
  /\ ~LoopPending

\* the calls of useData so far: resource and string
UsedPairs == [i \in DOMAIN used |-> <<used[i].r, used[i].data>>]

\* C15: in the run of main as written, the first watch resolves with exactly
\* socketA and the second with exactly socketB, no later watch resolves and
\* socketC is in no result; useData is called with "sample data A" of socketA
\* and then with "sample data B" of socketB and with nothing else; and once
\* main has passed both addDataQueue calls and nothing is left to run, both
\* calls of useData have been made and the loop waits in its third watch.
C15_SampleRun ==
  SampleRun =>
    /\ \A w \in DOMAIN watches :
         watches[w].settled
         => /\ w <= 2
            /\ watches[w].value = IF w = 1 THEN <<"socketA">> ELSE <<"socketB">>
    /\ IsPrefix(UsedPairs, << <<"socketA", "sample data A">>,
                              <<"socketB", "sample data B">> >>)
    /\ (Len(used) >= 1 => watches[1].settled)
    /\ (Len(used) = 2 => watches[2].settled)
    /\ MainAtRest
       => /\ Len(used) = 2
          /\ Len(watches) = 3
          /\ loop.pc = "watching"
          /\ loop.w = 3

C15_Witness ==
  /\ SampleRun
  /\ MainAtRest
  /\ UsedPairs = << <<"socketA", "sample data A">>,
                    <<"socketB", "sample data B">> >>
  /\ watches[1].value = <<"socketA">>
  /\ watches[2].value = <<"socketB">>

\* ------------------------------------------------ watch of no resource
\* C21: a watch called with an empty array is never resolved: resolve is
\* never called for it, no read of it is in flight or waiting to be handled,
\* none was ever handled, it has registered no callback on any resource, and
\* it stays so through every push made on any resource after the call.
C21_EmptyWatchNeverResolves ==
  \A w \in DOMAIN watches :
    watches[w].resources = <<>>
    => /\ ~watches[w].settled
       /\ watches[w].resolveCalls = 0
       /\ watches[w].value = <<>>
       /\ watches[w].ready = <<>>
       /\ watches[w].probed = 0
       /\ SubsOf(w) = {}
       /\ \A i \in DOMAIN timers.read : timers.read[i].w # w
       /\ \A i \in DOMAIN microtasks : microtasks[i].w # w

C21_Witness ==
  \E w \in DOMAIN watches :
    /\ watches[w].resources = <<>>
    /\ watches[w].pushes = MaxAdds
    /\ \A k \in Kinds : timers[k] = <<>>
    /\ microtasks = <<>>

====
